---- MODULE Spec2Model ----
(***************************************************************************)
(* The output subscription manager of the communication crate              *)
(* (crates/communication/src/output_subscription_manager.rs): one actor    *)
(* that owns the table of subscribed outputs, the current requester and    *)
(* the cached output hierarchy, and the tasks it spawns to await replies.  *)
(*                                                                         *)
(* Environment assumptions (the collaborators are not in this file):       *)
(*  - id_tracker hands out message ids 1, 2, 3, ... (never one twice);     *)
(*  - Uuid::new_v4() never returns a value it returned before;             *)
(*  - every Connect carries a requester of its own;                        *)
(*  - the id_tracker, responder and requester channels and the callers'    *)
(*    oneshot receivers accept what is sent to them;                       *)
(*  - a subscriber channel is bounded (Capacity) and its consumer may      *)
(*    receive from it or drop its receiver at any time.                    *)
(***************************************************************************)
EXTENDS Naturals, Sequences, FiniteSets

\* ---------------------------------------------------------------- bounds
\* of the specification Spec: subscriptions made, message ids used, connections
MaxUuid == 2
MaxIds == 3
MaxConn == 1
\* of the specification SpecRestart
RestartMaxUuid == 2
RestartMaxIds == 4
RestartMaxConn == 2
\* of the specification SpecTable
TabMaxUuid == 3
TabMaxIds == 2
TabMaxConn == 1
\* of the specification SpecDelivery: subscriptions made
DelMaxUuid == 3
\* of the specification SpecMessages
MsgMaxUuid == 2
MsgMaxIds == 3
MsgMaxConn == 1
\* of the specification SpecCatalog
CatMaxUuid == 1
CatMaxIds == 4
CatMaxConn == 3
\* of the specification SpecFlows
FlowMaxUuid == 2
FlowMaxIds == 3
FlowMaxConn == 2
\* of the specification SpecLive: the messages placed in the mailbox
LiveMaxMsgs == 4
CacheMaxUuid == 2
CacheMaxIds == 2
CacheMaxConn == 2
AckMaxUuid == 2
AckMaxIds == 3
AckMaxConn == 2
LeaveMaxUuid == 2
SnapMaxUuid == 2
SnapMaxIds == 3
SnapMaxConn == 1
FanMaxUuid == 2
FanMaxIds == 2
FanMaxConn == 1
\* of the specification SpecOrder
OrdMaxUuid == 2
\* the entries of one Update message
MaxBatch == 2
\* the capacity of a subscriber channel
Capacity == 1

Cyclers == {"Control", "Vision"}
OutputNames == {"a", "b"}
Chans == {"s1", "s2"}
Values == {"v1", "v2"}
Infos == {"e1", "e2"}
Hierarchies == {1, 2}

\* Option::None of the requester and of the hierarchy
None == 0

\* CyclerOutput { cycler, output }
CyclerOutput(cycler, output) == [cycler |-> cycler, output |-> output]
Keys == {CyclerOutput(c, o) : c \in Cyclers, o \in OutputNames}

\* Vec<SubscribedOutput> of an Update message, up to MaxBatch entries
SubscribedOutput == [output : OutputNames, data : Values]
Batches == UNION {[1..n -> SubscribedOutput] : n \in 1..MaxBatch}
\* those of a single entry
SingleBatches == [1..1 -> SubscribedOutput]

VARIABLES
    subscribed_outputs,  \* HashMap<CyclerOutput, HashMap<Uuid, Sender>>
    requester,           \* Option<Sender<requester::Message>>
    hierarchy,           \* Option<OutputHierarchy>
    pc,                  \* the actor: "idle" | "sending" (suspended in a send) | "dead" (panicked)
    pending,             \* the sends left of the suspended Update handler
    nextUuid,            \* the next Uuid::new_v4()
    nextId,              \* the next get_message_id()
    nextConn,            \* the next connection's requester
    flows,               \* the spawned tasks, by message id
    mailbox,             \* UpdateOutputHierarchy messages sent to the actor by its tasks
    chan,                \* the number of messages queued in each subscriber channel
    closed,              \* whether the receiver of a subscriber channel was dropped
    out,                 \* what the last step sent, in order: to the caller, the responder,
                         \* the requester, the subscribers and the actor's own mailbox
    live,                \* history: subscriptions made and not unsubscribed since
    started,             \* history: per output, the ids of the start requests sent since the
                         \* last Connect and since the output last entered the table
    origin,              \* history: for each message of mailbox, the connection whose query
                         \* it answers
    processed,           \* history: the hierarchy of the last UpdateOutputHierarchy processed
    fresh,               \* history: the hierarchy of the last Connect's own query, once its
                         \* UpdateOutputHierarchy was processed
    remote,              \* history: the outputs whose last request on the current
                         \* connection is a SubscribeOutput
    inbox                \* history: the Connect and Subscribe messages the callers have
                         \* placed in the mailbox, in order (specification SpecLive)

vars == <<subscribed_outputs, requester, hierarchy, pc, pending, nextUuid, nextId,
          nextConn, flows, mailbox, chan, closed, out, live, started, origin, processed,
          fresh, remote, inbox>>

\* ------------------------------------------------------------- HashMap
MapInsert(m, k, v) == [x \in DOMAIN m \cup {k} |-> IF x = k THEN v ELSE m[x]]
MapRemove(m, k) == [x \in DOMAIN m \ {k} |-> m[x]]
EmptyMap == [x \in {} |-> x]

\* The iteration orders a HashMap may have: every enumeration of the set.
Orders(S) == {s \in [1..Cardinality(S) -> S] : \A i, j \in 1..Cardinality(S) : s[i] = s[j] => i = j}

AllUuids == UNION {DOMAIN subscribed_outputs[k] : k \in DOMAIN subscribed_outputs}

\* subscribers.values() of one output, in the iteration order `order` of the uuids
ValuesOf(k, order) ==
    LET ids == SelectSeq(order, LAMBDA u : u \in DOMAIN subscribed_outputs[k])
    IN [i \in 1..Len(ids) |-> subscribed_outputs[k][ids[i]]]

\* ------------------------------------------------------------ messages
ToCaller(v) == [to |-> "caller", value |-> v]
Await(id) == [to |-> "responder", id |-> id]
Request(req, kind, id) == [to |-> "requester", requester |-> req, kind |-> kind, id |-> id]
OutputRequest(req, kind, id, output) ==
    [to |-> "requester", requester |-> req, kind |-> kind, id |-> id, output |-> output]

UpdateMsg(v) == [type |-> "Update", value |-> v]
SubscriptionSuccess == [type |-> "SubscriptionSuccess"]
SubscriptionFailure(info) == [type |-> "SubscriptionFailure", info |-> info]

\* ------------------------------------------------- sends to subscribers
\* sender.send(message).await.unwrap() for each of todo, in order: a closed
\* channel panics, a full one suspends the sender at that send.
ToSubscriber(s, msg) == [to |-> "subscriber", subscriber |-> s, msg |-> msg]

\* (bug) a full channel is passed over and the later sends go ahead
RECURSIVE DeliverPastFull(_, _, _)
DeliverPastFull(todo, ch, sent) ==
    IF todo = <<>> THEN [status |-> "done", todo |-> <<>>, chan |-> ch, sent |-> sent]
    ELSE LET d == Head(todo) IN
         IF closed[d.subscriber]
         THEN [status |-> "panic", todo |-> <<>>, chan |-> ch, sent |-> sent]
         ELSE IF ch[d.subscriber] >= Capacity
              THEN LET r == DeliverPastFull(Tail(todo), ch, sent) IN
                   IF r.status = "panic" THEN r
                   ELSE [status |-> "blocked", todo |-> <<d>> \o r.todo,
                         chan |-> r.chan, sent |-> r.sent]
              ELSE DeliverPastFull(Tail(todo), [ch EXCEPT ![d.subscriber] = @ + 1],
                                   Append(sent, d))

RECURSIVE Deliver(_, _, _)
Deliver(todo, ch, sent) ==
    IF todo = <<>> THEN [status |-> "done", todo |-> <<>>, chan |-> ch, sent |-> sent]
    ELSE LET d == Head(todo) IN
         IF closed[d.subscriber]
         THEN [status |-> "panic", todo |-> <<>>, chan |-> ch, sent |-> sent]
         ELSE IF ch[d.subscriber] >= Capacity
              THEN [status |-> "blocked", todo |-> todo, chan |-> ch, sent |-> sent]
              ELSE Deliver(Tail(todo), [ch EXCEPT ![d.subscriber] = @ + 1], Append(sent, d))

ToAll(subscribers, msg) == [i \in 1..Len(subscribers) |-> ToSubscriber(subscribers[i], msg)]

\* ---------------------------------------------------- correlation flows
\* w = [nextId, out, flows]: what a flow's creation reads and writes.

\* (bug) one correlation id per handler: the flows of one replay share it
subscribe_shares_id(w, output, subscribers, req) ==
    LET message_id == nextId IN
    [nextId |-> w.nextId + 1,
     out |-> w.out \o <<Await(message_id),
                        OutputRequest(req, "SubscribeOutput", message_id, output)>>,
     flows |-> MapInsert(w.flows, message_id,
                  [kind |-> "subscribe", output |-> output, requester |-> req,
                   st |-> "await", subscribers |-> subscribers])]

\* (bug) the subscribers are told of a success as soon as the request is sent
subscribe_notifies_at_once(w, output, subscribers, req) ==
    LET message_id == w.nextId IN
    [nextId |-> w.nextId + 1,
     out |-> w.out \o <<Await(message_id),
                        OutputRequest(req, "SubscribeOutput", message_id, output)>>
                   \o ToAll(subscribers, SubscriptionSuccess),
     flows |-> MapInsert(w.flows, message_id,
                  [kind |-> "subscribe", output |-> output, requester |-> req,
                   st |-> "await", subscribers |-> subscribers])]

subscribe(w, output, subscribers, req) ==
    LET message_id == w.nextId IN
    [nextId |-> w.nextId + 1,
     out |-> w.out \o <<Await(message_id),
                        OutputRequest(req, "SubscribeOutput", message_id, output)>>,
     flows |-> MapInsert(w.flows, message_id,
                  [kind |-> "subscribe", output |-> output, requester |-> req,
                   st |-> "await", subscribers |-> subscribers])]

\* (bug) the stop request is sent before its id is registered with the responder
unsubscribe_request_first(w, output, req) ==
    LET message_id == w.nextId IN
    [nextId |-> w.nextId + 1,
     out |-> w.out \o <<OutputRequest(req, "UnsubscribeOutput", message_id, output),
                        Await(message_id)>>,
     flows |-> MapInsert(w.flows, message_id,
                  [kind |-> "unsubscribe", output |-> output, requester |-> req,
                   st |-> "await"])]

unsubscribe(w, output, req) ==
    LET message_id == w.nextId IN
    [nextId |-> w.nextId + 1,
     out |-> w.out \o <<Await(message_id),
                        OutputRequest(req, "UnsubscribeOutput", message_id, output)>>,
     flows |-> MapInsert(w.flows, message_id,
                  [kind |-> "unsubscribe", output |-> output, requester |-> req,
                   st |-> "await"])]

query_output_hierarchy(w, req) ==
    LET message_id == w.nextId IN
    [nextId |-> w.nextId + 1,
     out |-> w.out \o <<Await(message_id), Request(req, "GetOutputHierarchy", message_id)>>,
     flows |-> MapInsert(w.flows, message_id,
                  [kind |-> "query", requester |-> req, st |-> "await"])]

World(o) == [nextId |-> nextId, out |-> o, flows |-> flows]

\* the requests among the sends o, and the ids of the start requests for output k
Requests(o) == SelectSeq(o, LAMBDA e : e.to = "requester")
StartIds(o, k) ==
    {o[i].id : i \in {j \in 1..Len(o) : /\ o[j].to = "requester"
                                        /\ o[j].kind = "SubscribeOutput"
                                        /\ o[j].output = k}}

\* the outputs of the stop requests among the sends o
StopKeys(o) ==
    {o[i].output : i \in {j \in 1..Len(o) : /\ o[j].to = "requester"
                                            /\ o[j].kind = "UnsubscribeOutput"}}

Commit(w) ==
    /\ nextId' = w.nextId
    /\ out' = w.out
    /\ flows' = w.flows

\* ------------------------------------------------------------- handlers
\* (bug) one start request per subscriber of an output instead of one per output
RECURSIVE ReplayPerSubscriber(_, _, _, _)
ReplayPerSubscriber(w, keyOrder, uuidOrder, new_requester) ==
    IF keyOrder = <<>> THEN w
    ELSE LET subscribers == ValuesOf(Head(keyOrder), uuidOrder)
             one == subscribe(w, Head(keyOrder), subscribers, new_requester)
         IN ReplayPerSubscriber(
                IF Len(subscribers) > 1
                THEN subscribe(one, Head(keyOrder), subscribers, new_requester)
                ELSE one,
                Tail(keyOrder), uuidOrder, new_requester)

\* (bug) only the first output of the table is replayed
ReplayFirstOnly(w, keyOrder, uuidOrder, new_requester) ==
    IF keyOrder = <<>> THEN w
    ELSE subscribe(w, Head(keyOrder), ValuesOf(Head(keyOrder), uuidOrder), new_requester)

\* (bug) Connect replays nothing
ReplayNothing(w, keyOrder, uuidOrder, new_requester) == w

\* for (output, subscribers) in &subscribed_outputs { subscribe(..).await }
RECURSIVE Replay(_, _, _, _)
Replay(w, keyOrder, uuidOrder, new_requester) ==
    IF keyOrder = <<>> THEN w
    ELSE Replay(subscribe(w, Head(keyOrder), ValuesOf(Head(keyOrder), uuidOrder), new_requester),
                Tail(keyOrder), uuidOrder, new_requester)

\* (bug) the replay goes out on the handle that is being replaced
ConnectReplaysOnPrevious(new_requester, keyOrder, uuidOrder) ==
    /\ pc = "idle"
    /\ Commit(query_output_hierarchy(
                  IF requester = None THEN World(<<>>)
                  ELSE Replay(World(<<>>), keyOrder, uuidOrder, requester), new_requester))
    /\ requester' = new_requester
    /\ nextConn' = new_requester + 1
    /\ started' = [k \in Keys |-> StartIds(out', k)]
    /\ fresh' = None
    /\ remote' = {k \in Keys : StartIds(out', k) # {}}
    /\ UNCHANGED <<subscribed_outputs, hierarchy, pc, pending, nextUuid, mailbox, chan,
                   closed, live, origin, processed, inbox>>

\* (bug) the handler itself awaits the replies: it runs only with no flow outstanding
ConnectAwaitsReplies(new_requester, keyOrder, uuidOrder) ==
    /\ pc = "idle"
    /\ flows = EmptyMap
    /\ Commit(query_output_hierarchy(
                  Replay(World(<<>>), keyOrder, uuidOrder, new_requester), new_requester))
    /\ requester' = new_requester
    /\ nextConn' = new_requester + 1
    /\ started' = [k \in Keys |-> StartIds(out', k)]
    /\ fresh' = None
    /\ remote' = {k \in Keys : StartIds(out', k) # {}}
    /\ UNCHANGED <<subscribed_outputs, hierarchy, pc, pending, nextUuid, mailbox, chan,
                   closed, live, origin, processed, inbox>>

Connect(new_requester, keyOrder, uuidOrder) ==
    /\ pc = "idle"
    /\ Commit(query_output_hierarchy(
                  Replay(World(<<>>), keyOrder, uuidOrder, new_requester), new_requester))
    /\ requester' = new_requester
    /\ nextConn' = new_requester + 1
    /\ started' = [k \in Keys |-> StartIds(out', k)]
    /\ fresh' = None
    /\ remote' = {k \in Keys : StartIds(out', k) # {}}
    /\ UNCHANGED <<subscribed_outputs, hierarchy, pc, pending, nextUuid, mailbox, chan,
                   closed, live, origin, processed, inbox>>

\* (bug) a disconnect that also forgets the subscribers
DisconnectClears ==
    /\ pc = "idle"
    /\ requester' = None
    /\ subscribed_outputs' = EmptyMap
    /\ out' = <<>>
    /\ remote' = {}
    /\ UNCHANGED <<hierarchy, pc, pending, nextUuid, nextId, nextConn,
                   flows, mailbox, chan, closed, live, started, origin, processed, fresh,
                   inbox>>

\* (bug) a disconnect that also cancels the tasks awaiting replies
DisconnectCancels ==
    /\ pc = "idle"
    /\ requester' = None
    /\ flows' = EmptyMap
    /\ out' = <<>>
    /\ remote' = {}
    /\ UNCHANGED <<subscribed_outputs, hierarchy, pc, pending, nextUuid, nextId, nextConn,
                   mailbox, chan, closed, live, started, origin, processed, fresh, inbox>>

\* (bug) a disconnect that also invalidates the cached hierarchy
DisconnectInvalidates ==
    /\ pc = "idle"
    /\ requester' = None
    /\ hierarchy' = None
    /\ out' = <<>>
    /\ remote' = {}
    /\ UNCHANGED <<subscribed_outputs, pc, pending, nextUuid, nextId, nextConn,
                   flows, mailbox, chan, closed, live, started, origin, processed, fresh,
                   inbox>>

Disconnect ==
    /\ pc = "idle"
    /\ requester' = None
    /\ out' = <<>>
    /\ remote' = {}
    /\ UNCHANGED <<subscribed_outputs, hierarchy, pc, pending, nextUuid, nextId, nextConn,
                   flows, mailbox, chan, closed, live, started, origin, processed, fresh,
                   inbox>>

\* the table after add_subscription
add_subscription_table(uuid, output, output_sender) ==
    IF output \in DOMAIN subscribed_outputs
    THEN [subscribed_outputs EXCEPT ![output] = MapInsert(@, uuid, output_sender)]
    ELSE MapInsert(subscribed_outputs, output, MapInsert(EmptyMap, uuid, output_sender))

\* (bug) the first subscriber of an output is announced without a connection
add_subscription_flow_offline(w, output, output_sender) ==
    IF output \in DOMAIN subscribed_outputs THEN w
    ELSE subscribe(w, output, <<output_sender>>, requester)

\* (bug) a start request for every subscription made while connected
add_subscription_flow_always(w, output, output_sender) ==
    IF requester # None
    THEN subscribe(w, output, <<output_sender>>, requester)
    ELSE w

\* the flow add_subscription creates, if any
add_subscription_flow(w, output, output_sender) ==
    IF output \in DOMAIN subscribed_outputs THEN w
    ELSE IF requester # None
         THEN subscribe(w, output, <<output_sender>>, requester)
         ELSE w

\* (bug) the caller is answered after the start request was sent
SubscribeAfterRequest(output, output_sender) ==
    /\ pc = "idle"
    /\ LET uuid == nextUuid
           w == add_subscription_flow(World(<<>>), output, output_sender)
       IN
        /\ Commit([w EXCEPT !.out = Append(@, ToCaller(uuid))])
        /\ subscribed_outputs' = add_subscription_table(uuid, output, output_sender)
        /\ live' = live \cup {[output |-> output, uuid |-> uuid, subscriber |-> output_sender]}
        /\ nextUuid' = uuid + 1
    /\ started' = [started EXCEPT ![output] = @ \cup StartIds(out', output)]
    /\ remote' = remote \cup {k \in Keys : StartIds(out', k) # {}}
    /\ UNCHANGED <<requester, hierarchy, pc, pending, nextConn, mailbox, chan, closed,
                   origin, processed, fresh, inbox>>

\* (bug) the id is the smallest one not in the table: an unsubscribed id comes back
SubscribeReusesUuid(output, output_sender) ==
    /\ pc = "idle"
    /\ LET uuid == CHOOSE u \in 1..nextUuid :
                       u \notin AllUuids /\ \A v \in 1..(u - 1) : v \in AllUuids IN
        /\ Commit(add_subscription_flow(World(<<ToCaller(uuid)>>), output, output_sender))
        /\ subscribed_outputs' = add_subscription_table(uuid, output, output_sender)
        /\ live' = live \cup {[output |-> output, uuid |-> uuid, subscriber |-> output_sender]}
        /\ nextUuid' = nextUuid + 1
    /\ started' = [started EXCEPT ![output] = @ \cup StartIds(out', output)]
    /\ remote' = remote \cup {k \in Keys : StartIds(out', k) # {}}
    /\ UNCHANGED <<requester, hierarchy, pc, pending, nextConn, mailbox, chan, closed,
                   origin, processed, fresh, inbox>>

Subscribe(output, output_sender) ==
    /\ pc = "idle"
    /\ LET uuid == nextUuid IN
        /\ Commit(add_subscription_flow(World(<<ToCaller(uuid)>>), output, output_sender))
        /\ subscribed_outputs' = add_subscription_table(uuid, output, output_sender)
        /\ live' = live \cup {[output |-> output, uuid |-> uuid, subscriber |-> output_sender]}
        /\ nextUuid' = uuid + 1
    /\ started' = [started EXCEPT ![output] = @ \cup StartIds(out', output)]
    /\ remote' = remote \cup {k \in Keys : StartIds(out', k) # {}}
    /\ UNCHANGED <<requester, hierarchy, pc, pending, nextConn, mailbox, chan, closed,
                   origin, processed, fresh, inbox>>

\* (bug) the entry of an output is kept when its last subscriber is removed
unsubscribe_table_keeps_empty(output, uuid) ==
    IF output \in DOMAIN subscribed_outputs
    THEN [subscribed_outputs EXCEPT ![output] = MapRemove(@, uuid)]
    ELSE subscribed_outputs

\* (bug) the whole entry of the output is removed with any of its subscribers
unsubscribe_table_removes_output(output, uuid) ==
    IF output \in DOMAIN subscribed_outputs /\ uuid \in DOMAIN subscribed_outputs[output]
    THEN MapRemove(subscribed_outputs, output)
    ELSE subscribed_outputs

\* (bug) the uuid is removed from whichever output it is registered under
unsubscribe_table_any_output(output, uuid) ==
    LET removed == [k \in DOMAIN subscribed_outputs |-> MapRemove(subscribed_outputs[k], uuid)]
    IN [k \in {x \in DOMAIN removed : DOMAIN removed[x] # {}} |-> removed[k]]

\* (bug) a subscriber is removed only when it is the last one of its output
unsubscribe_table_last_only(output, uuid) ==
    IF output \in DOMAIN subscribed_outputs /\ DOMAIN subscribed_outputs[output] \ {uuid} = {}
    THEN MapRemove(subscribed_outputs, output)
    ELSE subscribed_outputs

\* the table after Message::Unsubscribe
unsubscribe_table(output, uuid) ==
    IF output \in DOMAIN subscribed_outputs
    THEN LET sender == MapRemove(subscribed_outputs[output], uuid) IN
         IF DOMAIN sender = {}
         THEN MapRemove(subscribed_outputs, output)
         ELSE [subscribed_outputs EXCEPT ![output] = sender]
    ELSE subscribed_outputs

\* is_empty of Message::Unsubscribe
is_empty(output, uuid) ==
    /\ output \in DOMAIN subscribed_outputs
    /\ DOMAIN subscribed_outputs[output] \ {uuid} = {}

\* (bug) a stop request whether or not there is a connection
unsubscribe_flow_offline(w, output, uuid) ==
    IF is_empty(output, uuid)
    THEN unsubscribe(w, output, requester)
    ELSE w

\* (bug) a stop request for every subscriber removed, not only the last
unsubscribe_flow_every(w, output, uuid) ==
    IF /\ output \in DOMAIN subscribed_outputs
       /\ uuid \in DOMAIN subscribed_outputs[output]
       /\ requester # None
    THEN unsubscribe(w, output, requester)
    ELSE w

\* the flow Message::Unsubscribe creates, if any
unsubscribe_flow(w, output, uuid) ==
    IF is_empty(output, uuid) /\ requester # None
    THEN unsubscribe(w, output, requester)
    ELSE w

Unsubscribe(output, uuid) ==
    /\ pc = "idle"
    /\ subscribed_outputs' = unsubscribe_table(output, uuid)
    /\ Commit(unsubscribe_flow(World(<<>>), output, uuid))
    /\ live' = {l \in live : ~(l.output = output /\ l.uuid = uuid)}
    /\ started' = IF output \in DOMAIN subscribed_outputs'
                  THEN started
                  ELSE [started EXCEPT ![output] = {}]
    /\ remote' = remote \ StopKeys(out')
    /\ UNCHANGED <<requester, hierarchy, pc, pending, nextUuid, nextConn, mailbox, chan,
                   closed, origin, processed, fresh, inbox>>

\* (bug) the entries of the batch are served last to first
RECURSIVE UpdateSendsReversed(_, _, _)
UpdateSendsReversed(cycler, outputs, uuidOrder) ==
    IF outputs = <<>> THEN <<>>
    ELSE LET output == Head(outputs)
             key == CyclerOutput(cycler, output.output)
         IN UpdateSendsReversed(cycler, Tail(outputs), uuidOrder)
            \o (IF key \in DOMAIN subscribed_outputs
                THEN ToAll(ValuesOf(key, uuidOrder), UpdateMsg(output.data))
                ELSE <<>>)

\* the sends of Message::Update, in order: for each output, each sender of its entry
RECURSIVE UpdateSends(_, _, _)
UpdateSends(cycler, outputs, uuidOrder) ==
    IF outputs = <<>> THEN <<>>
    ELSE LET output == Head(outputs)
             key == CyclerOutput(cycler, output.output)
         IN (IF key \in DOMAIN subscribed_outputs
             THEN ToAll(ValuesOf(key, uuidOrder), UpdateMsg(output.data))
             ELSE <<>>)
            \o UpdateSends(cycler, Tail(outputs), uuidOrder)

\* the actor after its sends went as far as r says
Sent(r) ==
    /\ chan' = r.chan
    /\ out' = r.sent
    /\ pending' = r.todo
    /\ pc' = CASE r.status = "done" -> "idle"
               [] r.status = "blocked" -> "sending"
               [] OTHER -> "dead"

\* (bug) updates are passed on only while there is a connection
UpdateWhenConnected(cycler, outputs, uuidOrder) ==
    /\ pc = "idle"
    /\ Sent(Deliver(IF requester = None THEN <<>> ELSE UpdateSends(cycler, outputs, uuidOrder),
                    chan, <<>>))
    /\ UNCHANGED <<subscribed_outputs, requester, hierarchy, nextUuid, nextId, nextConn,
                   flows, mailbox, closed, live, started, origin, processed, fresh,
                   remote, inbox>>

Update(cycler, outputs, uuidOrder) ==
    /\ pc = "idle"
    /\ Sent(Deliver(UpdateSends(cycler, outputs, uuidOrder), chan, <<>>))
    /\ UNCHANGED <<subscribed_outputs, requester, hierarchy, nextUuid, nextId, nextConn,
                   flows, mailbox, closed, live, started, origin, processed, fresh,
                   remote, inbox>>

\* the suspended send of Message::Update goes on once its channel has room or is closed
UpdateResume ==
    /\ pc = "sending"
    /\ Deliver(pending, chan, <<>>).status # "blocked"
    /\ Sent(Deliver(pending, chan, <<>>))
    /\ UNCHANGED <<subscribed_outputs, requester, hierarchy, nextUuid, nextId, nextConn,
                   flows, mailbox, closed, live, started, origin, processed, fresh,
                   remote, inbox>>

\* (bug) the first hierarchy is kept, later ones are ignored
UpdateOutputHierarchyOnce ==
    /\ pc = "idle"
    /\ mailbox # <<>>
    /\ hierarchy' = IF hierarchy = None THEN Head(mailbox) ELSE hierarchy
    /\ mailbox' = Tail(mailbox)
    /\ out' = <<>>
    /\ origin' = Tail(origin)
    /\ processed' = Head(mailbox)
    /\ fresh' = IF Head(origin) = nextConn - 1 THEN Head(mailbox) ELSE fresh
    /\ UNCHANGED <<subscribed_outputs, requester, pc, pending, nextUuid, nextId, nextConn,
                   flows, chan, closed, live, started, remote, inbox>>

UpdateOutputHierarchy ==
    /\ pc = "idle"
    /\ mailbox # <<>>
    /\ hierarchy' = Head(mailbox)
    /\ mailbox' = Tail(mailbox)
    /\ out' = <<>>
    /\ origin' = Tail(origin)
    /\ processed' = Head(mailbox)
    /\ fresh' = IF Head(origin) = nextConn - 1 THEN Head(mailbox) ELSE fresh
    /\ UNCHANGED <<subscribed_outputs, requester, pc, pending, nextUuid, nextId, nextConn,
                   flows, chan, closed, live, started, remote, inbox>>

\* (bug) with no catalog cached and a connection, the catalog is fetched
GetOutputHierarchyFetches ==
    /\ pc = "idle"
    /\ IF hierarchy = None /\ requester # None
       THEN Commit(query_output_hierarchy(World(<<ToCaller(hierarchy)>>), requester))
       ELSE out' = <<ToCaller(hierarchy)>> /\ UNCHANGED <<nextId, flows>>
    /\ UNCHANGED <<subscribed_outputs, requester, hierarchy, pc, pending, nextUuid,
                   nextConn, mailbox, chan, closed, live, started,
                   origin, processed, fresh, remote, inbox>>

GetOutputHierarchy ==
    /\ pc = "idle"
    /\ out' = <<ToCaller(hierarchy)>>
    /\ UNCHANGED <<subscribed_outputs, requester, hierarchy, pc, pending, nextUuid, nextId,
                   nextConn, flows, mailbox, chan, closed, live, started,
                   origin, processed, fresh, remote, inbox>>

\* ------------------------------------------------------ spawned tasks
\* the task of subscribe() after response_receiver.await
\* (bug) a failure reply ends the task without a notice
SubscribeReplySilentOnFailure(id, message) ==
    /\ id \in DOMAIN flows
    /\ flows[id].kind = "subscribe"
    /\ flows[id].st = "await"
    /\ LET targets == IF message.type = "SubscriptionFailure" THEN <<>>
                      ELSE flows[id].subscribers
           r == Deliver(ToAll(targets, message), chan, <<>>) IN
        /\ chan' = r.chan
        /\ out' = r.sent
        /\ flows' = IF r.status = "blocked"
                    THEN [flows EXCEPT ![id] = [kind |-> "subscribe", output |-> @.output,
                                                requester |-> @.requester, st |-> "sending",
                                                todo |-> r.todo]]
                    ELSE MapRemove(flows, id)
    /\ UNCHANGED <<subscribed_outputs, requester, hierarchy, pc, pending, nextUuid, nextId,
                   nextConn, mailbox, closed, live, started, origin, processed, fresh,
                   remote, inbox>>

\* (bug) a failed start removes the output from the table
SubscribeReplyForgetsFailed(id, message) ==
    /\ id \in DOMAIN flows
    /\ flows[id].kind = "subscribe"
    /\ flows[id].st = "await"
    /\ LET r == Deliver(ToAll(flows[id].subscribers, message), chan, <<>>) IN
        /\ chan' = r.chan
        /\ out' = r.sent
        /\ flows' = IF r.status = "blocked"
                    THEN [flows EXCEPT ![id] = [kind |-> "subscribe", output |-> @.output,
                                                requester |-> @.requester, st |-> "sending",
                                                todo |-> r.todo]]
                    ELSE MapRemove(flows, id)
    /\ subscribed_outputs' = IF message.type = "SubscriptionFailure"
                             THEN MapRemove(subscribed_outputs, flows[id].output)
                             ELSE subscribed_outputs
    /\ UNCHANGED <<requester, hierarchy, pc, pending, nextUuid, nextId,
                   nextConn, mailbox, closed, live, started, origin, processed, fresh,
                   remote, inbox>>

SubscribeReply(id, message) ==
    /\ id \in DOMAIN flows
    /\ flows[id].kind = "subscribe"
    /\ flows[id].st = "await"
    /\ LET r == Deliver(ToAll(flows[id].subscribers, message), chan, <<>>) IN
        /\ chan' = r.chan
        /\ out' = r.sent
        /\ flows' = IF r.status = "blocked"
                    THEN [flows EXCEPT ![id] = [kind |-> "subscribe", output |-> @.output,
                                                requester |-> @.requester, st |-> "sending",
                                                todo |-> r.todo]]
                    ELSE MapRemove(flows, id)
    /\ UNCHANGED <<subscribed_outputs, requester, hierarchy, pc, pending, nextUuid, nextId,
                   nextConn, mailbox, closed, live, started, origin, processed, fresh,
                   remote, inbox>>

SubscribeResume(id) ==
    /\ id \in DOMAIN flows
    /\ flows[id].kind = "subscribe"
    /\ flows[id].st = "sending"
    /\ LET r == Deliver(flows[id].todo, chan, <<>>) IN
        /\ r.status # "blocked"
        /\ chan' = r.chan
        /\ out' = r.sent
        /\ flows' = MapRemove(flows, id)
    /\ UNCHANGED <<subscribed_outputs, requester, hierarchy, pc, pending, nextUuid, nextId,
                   nextConn, mailbox, closed, live, started, origin, processed, fresh,
                   remote, inbox>>

\* (bug) the task tells the present subscribers of the output that the stop failed
UnsubscribeReplyNotifies(id) ==
    /\ id \in DOMAIN flows
    /\ flows[id].kind = "unsubscribe"
    /\ LET output == flows[id].output
           targets == IF output \in DOMAIN subscribed_outputs
                      THEN ValuesOf(output, CHOOSE o \in Orders(AllUuids) : TRUE)
                      ELSE <<>>
           r == Deliver(ToAll(targets, SubscriptionFailure("e1")), chan, <<>>)
       IN /\ chan' = r.chan
          /\ out' = r.sent
    /\ flows' = MapRemove(flows, id)
    /\ UNCHANGED <<subscribed_outputs, requester, hierarchy, pc, pending, nextUuid, nextId,
                   nextConn, mailbox, closed, live, started, origin, processed, fresh,
                   remote, inbox>>

\* the task of unsubscribe(): a failure is logged
UnsubscribeReply(id) ==
    /\ id \in DOMAIN flows
    /\ flows[id].kind = "unsubscribe"
    /\ flows' = MapRemove(flows, id)
    /\ out' = <<>>
    /\ UNCHANGED <<subscribed_outputs, requester, hierarchy, pc, pending, nextUuid, nextId,
                   nextConn, mailbox, chan, closed, live, started, origin, processed, fresh,
                   remote, inbox>>

\* (bug) every payload is taken for a hierarchy
ParsesAnything(value) == TRUE

\* serde_json::from_value of a reply's payload: a hierarchy, or an error
Parses(value) == value \in Hierarchies

\* the task of query_output_hierarchy(): response is Ok(value) or Err
QueryReply(id, ok, value) ==
    /\ id \in DOMAIN flows
    /\ flows[id].kind = "query"
    /\ flows' = MapRemove(flows, id)
    /\ mailbox' = IF ok /\ Parses(value) /\ pc # "dead"
                  THEN Append(mailbox, value)
                  ELSE mailbox
    /\ out' = IF ok /\ Parses(value) /\ pc # "dead"
              THEN <<[to |-> "manager", hierarchy |-> value]>>
              ELSE <<>>
    /\ origin' = IF ok /\ Parses(value) /\ pc # "dead"
                 THEN Append(origin, flows[id].requester)
                 ELSE origin
    /\ UNCHANGED <<subscribed_outputs, requester, hierarchy, pc, pending, nextUuid, nextId,
                   nextConn, chan, closed, live, started, processed, fresh, remote, inbox>>

\* ------------------------------------------------------- the consumers
Receive(s) ==
    /\ ~closed[s]
    /\ chan[s] > 0
    /\ chan' = [chan EXCEPT ![s] = @ - 1]
    /\ out' = <<>>
    /\ UNCHANGED <<subscribed_outputs, requester, hierarchy, pc, pending, nextUuid, nextId,
                   nextConn, flows, mailbox, closed, live, started, origin, processed, fresh,
                   remote, inbox>>

DropReceiver(s) ==
    /\ ~closed[s]
    /\ closed' = [closed EXCEPT ![s] = TRUE]
    /\ chan' = [chan EXCEPT ![s] = 0]
    /\ out' = <<>>
    /\ UNCHANGED <<subscribed_outputs, requester, hierarchy, pc, pending, nextUuid, nextId,
                   nextConn, flows, mailbox, live, started, origin, processed, fresh,
                   remote, inbox>>

Init ==
    /\ subscribed_outputs = EmptyMap
    /\ requester = None
    /\ hierarchy = None
    /\ pc = "idle"
    /\ pending = <<>>
    /\ nextUuid = 1
    /\ nextId = 1
    /\ nextConn = 1
    /\ flows = EmptyMap
    /\ mailbox = <<>>
    /\ chan = [c \in Chans |-> 0]
    /\ closed = [c \in Chans |-> FALSE]
    /\ out = <<>>
    /\ live = {}
    /\ started = [k \in Keys |-> {}]
    /\ origin = <<>>
    /\ processed = None
    /\ fresh = None
    /\ remote = {}
    /\ inbox = <<>>

\* ------------------------------------------------------ specifications
\* The messages the mailbox receives, the replies the tasks receive and what the
\* consumers do are the environment's. A specification lets the environment do
\* part of it, and bounds the subscriptions made (nextUuid), the message ids
\* used (nextId) and the connections made (nextConn).
Bounded(maxUuid, maxIds, maxConn) ==
    /\ nextUuid' <= maxUuid + 1
    /\ nextId' <= maxIds + 1
    /\ nextConn' <= maxConn + 1

\* the outputs the callers subscribe to
SpecKeys == {CyclerOutput("Control", "a"), CyclerOutput("Control", "b")}

\* Spec: connections come and go, callers subscribe and unsubscribe, the start
\* requests are replied to and the consumers receive what is sent to them.
Next ==
    \/ \E ko \in Orders(DOMAIN subscribed_outputs), uo \in Orders(AllUuids) :
           Connect(nextConn, ko, uo) /\ Bounded(MaxUuid, MaxIds, MaxConn)
    \/ Disconnect
    \/ \E output \in SpecKeys, s \in Chans :
           Subscribe(output, s) /\ Bounded(MaxUuid, MaxIds, MaxConn)
    \/ \E output \in SpecKeys, uuid \in 1..MaxUuid :
           Unsubscribe(output, uuid) /\ Bounded(MaxUuid, MaxIds, MaxConn)
    \/ \E id \in DOMAIN flows : SubscribeReply(id, SubscriptionSuccess)
    \/ \E id \in DOMAIN flows, info \in Infos : SubscribeReply(id, SubscriptionFailure(info))
    \/ \E id \in DOMAIN flows : SubscribeResume(id)
    \/ \E s \in Chans : Receive(s)

Spec == Init /\ [][Next]_vars

\* SpecRestart: the steps of Spec, with the ids for an output to be started,
\* stopped and started again, and a second connection.
NextRestart ==
    \/ \E ko \in Orders(DOMAIN subscribed_outputs), uo \in Orders(AllUuids) :
           Connect(nextConn, ko, uo) /\ Bounded(RestartMaxUuid, RestartMaxIds, RestartMaxConn)
    \/ Disconnect
    \/ \E output \in SpecKeys, s \in Chans :
           Subscribe(output, s) /\ Bounded(RestartMaxUuid, RestartMaxIds, RestartMaxConn)
    \/ \E output \in SpecKeys, uuid \in 1..RestartMaxUuid :
           Unsubscribe(output, uuid) /\ Bounded(RestartMaxUuid, RestartMaxIds, RestartMaxConn)
    \/ \E id \in DOMAIN flows : SubscribeReply(id, SubscriptionSuccess)
    \/ \E id \in DOMAIN flows, info \in Infos : SubscribeReply(id, SubscriptionFailure(info))
    \/ \E id \in DOMAIN flows : SubscribeResume(id)
    \/ \E s \in Chans : Receive(s)

SpecRestart == Init /\ [][NextRestart]_vars

\* SpecTable: the steps of Spec, with three subscriptions on one connection.
NextTable ==
    \/ \E ko \in Orders(DOMAIN subscribed_outputs), uo \in Orders(AllUuids) :
           Connect(nextConn, ko, uo) /\ Bounded(TabMaxUuid, TabMaxIds, TabMaxConn)
    \/ Disconnect
    \/ \E output \in SpecKeys, s \in Chans :
           Subscribe(output, s) /\ Bounded(TabMaxUuid, TabMaxIds, TabMaxConn)
    \/ \E output \in SpecKeys, uuid \in 1..TabMaxUuid :
           Unsubscribe(output, uuid) /\ Bounded(TabMaxUuid, TabMaxIds, TabMaxConn)
    \/ \E id \in DOMAIN flows : SubscribeReply(id, SubscriptionSuccess)
    \/ \E id \in DOMAIN flows, info \in Infos : SubscribeReply(id, SubscriptionFailure(info))
    \/ \E id \in DOMAIN flows : SubscribeResume(id)
    \/ \E s \in Chans : Receive(s)

SpecTable == Init /\ [][NextTable]_vars

\* SpecMessages: every message of the mailbox, and every reply; the Update
\* messages carry one entry.
NextMessages ==
    \/ \E ko \in Orders(DOMAIN subscribed_outputs), uo \in Orders(AllUuids) :
           Connect(nextConn, ko, uo) /\ Bounded(MsgMaxUuid, MsgMaxIds, MsgMaxConn)
    \/ Disconnect
    \/ \E output \in SpecKeys, s \in Chans :
           Subscribe(output, s) /\ Bounded(MsgMaxUuid, MsgMaxIds, MsgMaxConn)
    \/ \E output \in SpecKeys, uuid \in 1..MsgMaxUuid :
           Unsubscribe(output, uuid) /\ Bounded(MsgMaxUuid, MsgMaxIds, MsgMaxConn)
    \/ \E cycler \in Cyclers, outputs \in SingleBatches, uo \in Orders(AllUuids) :
           Update(cycler, outputs, uo)
    \/ UpdateResume
    \/ UpdateOutputHierarchy
    \/ GetOutputHierarchy
    \/ \E id \in DOMAIN flows : SubscribeReply(id, SubscriptionSuccess)
    \/ \E id \in DOMAIN flows, info \in Infos : SubscribeReply(id, SubscriptionFailure(info))
    \/ \E id \in DOMAIN flows : SubscribeResume(id)
    \/ \E id \in DOMAIN flows : UnsubscribeReply(id)
    \/ \E id \in DOMAIN flows, ok \in BOOLEAN, value \in Hierarchies \cup {None} :
           QueryReply(id, ok, value)
    \/ \E s \in Chans : Receive(s)

SpecMessages == Init /\ [][NextMessages]_vars

\* SpecDelivery: no connection is made; callers subscribe and unsubscribe, the
\* producers send updates, and a consumer may drop its receiver.
DeliveryKeys == SpecKeys \cup {CyclerOutput("Vision", "a")}

NextDelivery ==
    \/ \E output \in DeliveryKeys, s \in Chans :
           Subscribe(output, s) /\ Bounded(DelMaxUuid, 0, 0)
    \/ \E output \in DeliveryKeys, uuid \in 1..DelMaxUuid :
           Unsubscribe(output, uuid)
    \/ \E cycler \in Cyclers, outputs \in Batches, uo \in Orders(AllUuids) :
           Update(cycler, outputs, uo)
    \/ UpdateResume
    \/ \E s \in Chans : Receive(s)
    \/ \E s \in Chans : DropReceiver(s)

SpecDelivery == Init /\ [][NextDelivery]_vars

\* SpecNotices: callers subscribe, a connection is made, the start requests are
\* replied to, and a consumer may receive or drop its receiver.
NextNotices ==
    \/ \E ko \in Orders(DOMAIN subscribed_outputs), uo \in Orders(AllUuids) :
           Connect(nextConn, ko, uo) /\ Bounded(MsgMaxUuid, MsgMaxIds, MsgMaxConn)
    \/ \E output \in SpecKeys, s \in Chans :
           Subscribe(output, s) /\ Bounded(MsgMaxUuid, MsgMaxIds, MsgMaxConn)
    \/ \E id \in DOMAIN flows : SubscribeReply(id, SubscriptionSuccess)
    \/ \E id \in DOMAIN flows, info \in Infos : SubscribeReply(id, SubscriptionFailure(info))
    \/ \E id \in DOMAIN flows : SubscribeResume(id)
    \/ \E s \in Chans : Receive(s)
    \/ \E s \in Chans : DropReceiver(s)

SpecNotices == Init /\ [][NextNotices]_vars

\* SpecCatalog: connections come and go, a caller subscribes, the queries are
\* replied to (success with a payload, or failure) and the hierarchy is asked for.
NextCatalog ==
    \/ \E ko \in Orders(DOMAIN subscribed_outputs), uo \in Orders(AllUuids) :
           Connect(nextConn, ko, uo) /\ Bounded(CatMaxUuid, CatMaxIds, CatMaxConn)
    \/ Disconnect
    \/ \E output \in SpecKeys, s \in Chans :
           Subscribe(output, s) /\ Bounded(CatMaxUuid, CatMaxIds, CatMaxConn)
    \/ UpdateOutputHierarchy
    \/ GetOutputHierarchy
    \/ \E id \in DOMAIN flows, ok \in BOOLEAN, value \in Hierarchies \cup {None} :
           QueryReply(id, ok, value)

SpecCatalog == Init /\ [][NextCatalog]_vars

\* SpecOrder: two subscriptions, updates, and consumers that receive or drop.
NextOrder ==
    \/ \E output \in DeliveryKeys, s \in Chans :
           Subscribe(output, s) /\ Bounded(OrdMaxUuid, 0, 0)
    \/ \E cycler \in Cyclers, outputs \in Batches, uo \in Orders(AllUuids) :
           Update(cycler, outputs, uo)
    \/ UpdateResume
    \/ \E s \in Chans : Receive(s)
    \/ \E s \in Chans : DropReceiver(s)

SpecOrder == Init /\ [][NextOrder]_vars

\* SpecFlows: connections come and go, callers subscribe and unsubscribe, and
\* the flows of all three kinds are replied to, at any time.
NextFlows ==
    \/ \E ko \in Orders(DOMAIN subscribed_outputs), uo \in Orders(AllUuids) :
           Connect(nextConn, ko, uo) /\ Bounded(FlowMaxUuid, FlowMaxIds, FlowMaxConn)
    \/ Disconnect
    \/ \E output \in SpecKeys, s \in Chans :
           Subscribe(output, s) /\ Bounded(FlowMaxUuid, FlowMaxIds, FlowMaxConn)
    \/ \E output \in SpecKeys, uuid \in 1..FlowMaxUuid :
           Unsubscribe(output, uuid) /\ Bounded(FlowMaxUuid, FlowMaxIds, FlowMaxConn)
    \/ UpdateOutputHierarchy
    \/ \E id \in DOMAIN flows : SubscribeReply(id, SubscriptionSuccess)
    \/ \E id \in DOMAIN flows, info \in Infos : SubscribeReply(id, SubscriptionFailure(info))
    \/ \E id \in DOMAIN flows : SubscribeResume(id)
    \/ \E id \in DOMAIN flows : UnsubscribeReply(id)
    \/ \E id \in DOMAIN flows, ok \in BOOLEAN, value \in Hierarchies \cup {None} :
           QueryReply(id, ok, value)
    \/ \E s \in Chans : Receive(s)

SpecFlows == Init /\ [][NextFlows]_vars

\* SpecAck: connections come and go, callers subscribe and unsubscribe; every
\* start request is replied to, a task suspended at a full channel goes on once
\* the channel has room (tokio's mpsc queues its senders fairly), and every
\* consumer keeps receiving.
ReplyTo(id) ==
    \/ SubscribeReply(id, SubscriptionSuccess)
    \/ \E info \in Infos : SubscribeReply(id, SubscriptionFailure(info))

NextAck ==
    \/ \E ko \in Orders(DOMAIN subscribed_outputs), uo \in Orders(AllUuids) :
           Connect(nextConn, ko, uo) /\ Bounded(AckMaxUuid, AckMaxIds, AckMaxConn)
    \/ Disconnect
    \/ \E output \in SpecKeys, s \in Chans :
           Subscribe(output, s) /\ Bounded(AckMaxUuid, AckMaxIds, AckMaxConn)
    \/ \E output \in SpecKeys, uuid \in 1..AckMaxUuid :
           Unsubscribe(output, uuid) /\ Bounded(AckMaxUuid, AckMaxIds, AckMaxConn)
    \/ \E id \in DOMAIN flows : ReplyTo(id)
    \/ \E id \in DOMAIN flows : SubscribeResume(id)
    \/ \E s \in Chans : Receive(s)

SpecAck ==
    /\ Init
    /\ [][NextAck]_vars
    /\ \A id \in 1..AckMaxIds : WF_vars(ReplyTo(id)) /\ SF_vars(SubscribeResume(id))
    /\ \A s \in Chans : WF_vars(Receive(s))

\* SpecLeave: no connection is made; callers subscribe and unsubscribe, the
\* producers send updates and the consumers receive.
NextLeave ==
    \/ \E output \in SpecKeys, s \in Chans :
           Subscribe(output, s) /\ Bounded(LeaveMaxUuid, 0, 0)
    \/ \E output \in SpecKeys, uuid \in 1..LeaveMaxUuid :
           Unsubscribe(output, uuid)
    \/ \E cycler \in Cyclers, outputs \in Batches, uo \in Orders(AllUuids) :
           Update(cycler, outputs, uo)
    \/ UpdateResume
    \/ \E s \in Chans : Receive(s)

SpecLeave == Init /\ [][NextLeave]_vars

\* SpecSnapshot: callers subscribe and unsubscribe, a connection is made, the
\* start requests are replied to, and a consumer may receive or drop its receiver.
NextSnapshot ==
    \/ \E ko \in Orders(DOMAIN subscribed_outputs), uo \in Orders(AllUuids) :
           Connect(nextConn, ko, uo) /\ Bounded(SnapMaxUuid, SnapMaxIds, SnapMaxConn)
    \/ \E output \in SpecKeys, s \in Chans :
           Subscribe(output, s) /\ Bounded(SnapMaxUuid, SnapMaxIds, SnapMaxConn)
    \/ \E output \in SpecKeys, uuid \in 1..SnapMaxUuid :
           Unsubscribe(output, uuid) /\ Bounded(SnapMaxUuid, SnapMaxIds, SnapMaxConn)
    \/ \E id \in DOMAIN flows : SubscribeReply(id, SubscriptionSuccess)
    \/ \E id \in DOMAIN flows, info \in Infos : SubscribeReply(id, SubscriptionFailure(info))
    \/ \E id \in DOMAIN flows : SubscribeResume(id)
    \/ \E s \in Chans : Receive(s)
    \/ \E s \in Chans : DropReceiver(s)

SpecSnapshot == Init /\ [][NextSnapshot]_vars

\* SpecFan: a connection is made and lost, callers subscribe, the start
\* requests are replied to, the producers send updates, and a consumer may
\* receive or drop its receiver.
NextFan ==
    \/ \E ko \in Orders(DOMAIN subscribed_outputs), uo \in Orders(AllUuids) :
           Connect(nextConn, ko, uo) /\ Bounded(FanMaxUuid, FanMaxIds, FanMaxConn)
    \/ Disconnect
    \/ \E s \in Chans :
           Subscribe(CyclerOutput("Control", "a"), s) /\ Bounded(FanMaxUuid, FanMaxIds, FanMaxConn)
    \/ \E id \in DOMAIN flows : SubscribeReply(id, SubscriptionSuccess)
    \/ \E id \in DOMAIN flows, info \in Infos : SubscribeReply(id, SubscriptionFailure(info))
    \/ \E id \in DOMAIN flows : SubscribeResume(id)
    \/ \E cycler \in Cyclers, outputs \in Batches, uo \in Orders(AllUuids) :
           Update(cycler, outputs, uo)
    \/ UpdateResume
    \/ \E s \in Chans : Receive(s)
    \/ \E s \in Chans : DropReceiver(s)

SpecFan == Init /\ [][NextFan]_vars

\* SpecCache: all seven messages of the mailbox and the replies to the queries.
NextCache ==
    \/ \E ko \in Orders(DOMAIN subscribed_outputs), uo \in Orders(AllUuids) :
           Connect(nextConn, ko, uo) /\ Bounded(CacheMaxUuid, CacheMaxIds, CacheMaxConn)
    \/ Disconnect
    \/ \E output \in SpecKeys, s \in Chans :
           Subscribe(output, s) /\ Bounded(CacheMaxUuid, CacheMaxIds, CacheMaxConn)
    \/ \E output \in SpecKeys, uuid \in 1..CacheMaxUuid :
           Unsubscribe(output, uuid) /\ Bounded(CacheMaxUuid, CacheMaxIds, CacheMaxConn)
    \/ \E cycler \in Cyclers, outputs \in Batches, uo \in Orders(AllUuids) :
           Update(cycler, outputs, uo)
    \/ UpdateResume
    \/ UpdateOutputHierarchy
    \/ GetOutputHierarchy
    \/ \E id \in DOMAIN flows, ok \in BOOLEAN, value \in Hierarchies \cup {None} :
           QueryReply(id, ok, value)
    \/ \E s \in Chans : Receive(s)

SpecCache == Init /\ [][NextCache]_vars

\* SpecLive: callers place Connect and Subscribe messages in the mailbox, the
\* actor takes them in order (receiver.recv()), and no reply is ever delivered.
\* The Connect and Subscribe messages processed so far:
Processed == (nextConn - 1) + (nextUuid - 1)

PlaceConnect ==
    /\ Len(inbox) < LiveMaxMsgs
    /\ inbox' = Append(inbox, [kind |-> "Connect"])
    /\ out' = <<>>
    /\ UNCHANGED <<subscribed_outputs, requester, hierarchy, pc, pending, nextUuid, nextId,
                   nextConn, flows, mailbox, chan, closed, live, started, origin, processed,
                   fresh, remote>>

PlaceSubscribe(output, subscriber) ==
    /\ Len(inbox) < LiveMaxMsgs
    /\ inbox' = Append(inbox, [kind |-> "Subscribe", output |-> output,
                                subscriber |-> subscriber])
    /\ out' = <<>>
    /\ UNCHANGED <<subscribed_outputs, requester, hierarchy, pc, pending, nextUuid, nextId,
                   nextConn, flows, mailbox, chan, closed, live, started, origin, processed,
                   fresh, remote>>

\* while let Some(message) = receiver.recv().await { match message { .. } }
ProcessNext ==
    /\ Processed < Len(inbox)
    /\ LET message == inbox[Processed + 1] IN
        IF message.kind = "Connect"
        THEN \E ko \in Orders(DOMAIN subscribed_outputs), uo \in Orders(AllUuids) :
                 Connect(nextConn, ko, uo)
        ELSE Subscribe(message.output, message.subscriber)

NextLive ==
    \/ PlaceConnect
    \/ \E output \in SpecKeys, s \in Chans : PlaceSubscribe(output, s)
    \/ ProcessNext

\* the actor's task is scheduled whenever it can take a message
SpecLive == Init /\ [][NextLive]_vars /\ WF_vars(ProcessNext)

\* ================================================================ claims
\* the requests of one kind among the sends o, and those about output k
OfKind(o, kind) == SelectSeq(Requests(o), LAMBDA e : e.kind = kind)
AboutOutput(o, k) ==
    SelectSeq(Requests(o), LAMBDA e : e.kind # "GetOutputHierarchy" /\ e.output = k)
Upstream(o) == SelectSeq(o, LAMBDA e : e.to \in {"requester", "responder"})

\* the (output, uuid, subscriber) triples of the table
Triples ==
    UNION {{[output |-> k, uuid |-> u, subscriber |-> subscribed_outputs[k][u]] :
               u \in DOMAIN subscribed_outputs[k]} : k \in DOMAIN subscribed_outputs}

\* the start requests for output k whose reply has not been delivered
OutstandingStarts(k) ==
    {id \in DOMAIN flows : /\ flows[id].kind = "subscribe"
                           /\ flows[id].st = "await"
                           /\ flows[id].output = k}

\* C1: while connected, a Subscribe for an output that is not in the table sends
\* exactly one SubscribeOutput for it (on the current requester) and leaves the
\* output in the table; a Subscribe for an output that is in the table sends no
\* request. So N Subscribes in a row for an absent output send exactly one.
C1_OneStartForNSubscribes ==
    [][\A k \in Keys, s \in Chans :
         (Subscribe(k, s) /\ requester # None) =>
            /\ k \in DOMAIN subscribed_outputs'
            /\ IF k \in DOMAIN subscribed_outputs
               THEN Requests(out') = <<>>
               ELSE /\ Len(Requests(out')) = 1
                    /\ Requests(out')[1].kind = "SubscribeOutput"
                    /\ Requests(out')[1].output = k
                    /\ Requests(out')[1].requester = requester]_vars

\* a second Subscribe for an output was processed while connected and sent no
\* request; one start request was sent for the output
C1_Witness ==
    \E k \in Keys :
        /\ requester # None
        /\ k \in DOMAIN subscribed_outputs
        /\ Cardinality(DOMAIN subscribed_outputs[k]) >= 2
        /\ nextUuid - 1 \in DOMAIN subscribed_outputs[k]
        /\ out = <<ToCaller(nextUuid - 1)>>
        /\ Cardinality(started[k]) = 1

\* C2 (as claimed): for every output at most one start request is outstanding.
C2_AtMostOneOutstandingStart ==
    \A k \in Keys : Cardinality(OutstandingStarts(k)) <= 1

\* C2 (amended): for every output at most one start request is outstanding among
\* those sent since the last Connect and since the output last entered the table.
C2_AtMostOneCurrentStart ==
    \A k \in Keys : Cardinality(OutstandingStarts(k) \cap started[k]) <= 1

\* two start requests for one output are outstanding, one of them current
C2_Witness ==
    \E k \in Keys :
        /\ Cardinality(OutstandingStarts(k)) >= 2
        /\ Cardinality(OutstandingStarts(k) \cap started[k]) = 1

\* C3: the table holds exactly the subscriptions made and not unsubscribed since.
C3_TableIsLive == Triples = live

\* after a Connect, a catalog update, an unsubscription and a Disconnect, a
\* subscription is still in the table
C3_Witness ==
    /\ requester = None
    /\ nextConn > 1
    /\ hierarchy # None
    /\ live # {}
    /\ Cardinality(live) < nextUuid - 1

\* C4: Connect(c) sends on c one SubscribeOutput for each output of the table,
\* none for any other output, one GetOutputHierarchy, and nothing else.
C4_ConnectReplaysTable ==
    [][nextConn' # nextConn =>
         /\ \A k \in Keys :
               Len(SelectSeq(OfKind(out', "SubscribeOutput"), LAMBDA e : e.output = k))
                   = IF k \in DOMAIN subscribed_outputs THEN 1 ELSE 0
         /\ Len(OfKind(out', "GetOutputHierarchy")) = 1
         /\ Len(Requests(out')) = Cardinality(DOMAIN subscribed_outputs) + 1
         /\ \A i \in 1..Len(Requests(out')) : Requests(out')[i].requester = requester'
         /\ requester' = nextConn]_vars

\* a Connect was processed with two outputs in the table
C4_Witness ==
    /\ nextConn > 1
    /\ requester = nextConn - 1
    /\ Len(OfKind(out, "SubscribeOutput")) = 2
    /\ Len(OfKind(out, "GetOutputHierarchy")) = 1

\* C5: no output of the table has an empty inner map.
C5_NoEmptyEntry ==
    \A k \in DOMAIN subscribed_outputs : DOMAIN subscribed_outputs[k] # {}

\* the only subscriber of the only output was unsubscribed
C5_Witness ==
    /\ nextUuid = 2
    /\ live = {}
    /\ DOMAIN subscribed_outputs = {}

\* C6: a step that finds and leaves the connection handle absent (Subscribe,
\* Unsubscribe, Update, GetOutputHierarchy, Disconnect, ...) sends nothing to the
\* requester and registers nothing with the responder.
C6_NothingUpstreamWhileDisconnected ==
    [][(requester = None /\ requester' = None) => Upstream(out') = <<>>]_vars

\* after a Disconnect, a Subscribe was processed and only its caller was answered
C6_Witness ==
    /\ requester = None
    /\ nextConn > 1
    /\ nextUuid > 1
    /\ nextUuid - 1 \in AllUuids
    /\ out = <<ToCaller(nextUuid - 1)>>

\* C7: of the steps that find the connection handle absent, only a Connect sends
\* requests about outputs: one SubscribeOutput on the new connection for each
\* output that is in the table then (so for an output subscribed while
\* disconnected that still has a subscriber), and nothing about an output that
\* is not (so nothing for one whose subscribers all unsubscribed before).
C7_OfflineOutputsReplayedOnConnect ==
    [][requester = None =>
         \A k \in Keys :
            IF requester' # None /\ k \in DOMAIN subscribed_outputs
            THEN /\ Len(AboutOutput(out', k)) = 1
                 /\ AboutOutput(out', k)[1].kind = "SubscribeOutput"
                 /\ AboutOutput(out', k)[1].requester = requester'
            ELSE AboutOutput(out', k) = <<>>]_vars

\* the first Connect was processed after two subscriptions, one of them
\* unsubscribed before it, and sent a SubscribeOutput for the output that is left
C7_Witness ==
    /\ requester = 1
    /\ nextConn = 2
    /\ nextUuid = 3
    /\ Cardinality(AllUuids) = 1
    /\ \E k \in DOMAIN subscribed_outputs : Len(AboutOutput(out, k)) = 1
    /\ Len(OfKind(out, "SubscribeOutput")) = 1

\* C8: Unsubscribe(k, u) for a uuid registered under k removes exactly that
\* subscription: k leaves the table if u was its last subscriber and otherwise
\* keeps its other subscribers; every other output is unchanged.
C8_UnsubscribeRemovesExactlyOne ==
    [][\A k \in Keys, u \in AllUuids :
         (Unsubscribe(k, u) /\ k \in DOMAIN subscribed_outputs
                            /\ u \in DOMAIN subscribed_outputs[k]) =>
            /\ Triples' = Triples \ {[output |-> k, uuid |-> u,
                                      subscriber |-> subscribed_outputs[k][u]]}
            /\ (k \in DOMAIN subscribed_outputs') = (DOMAIN subscribed_outputs[k] # {u})
            /\ \A k2 \in DOMAIN subscribed_outputs \ {k} :
                  /\ k2 \in DOMAIN subscribed_outputs'
                  /\ subscribed_outputs'[k2] = subscribed_outputs[k2]]_vars

\* a subscriber that was not the last of its output was unsubscribed: the first
\* message was a Connect (id 1 is its query), only one more id was used (the
\* start request of the one output), and of the three subscriptions made since,
\* the second is gone
C8_Witness ==
    /\ requester = 1
    /\ nextConn = 2
    /\ nextId = 3
    /\ 1 \in DOMAIN flows
    /\ flows[1].kind = "query"
    /\ nextUuid = 4
    /\ \E k \in Keys : /\ DOMAIN subscribed_outputs = {k}
                       /\ DOMAIN subscribed_outputs[k] = {1, 3}

\* C9: Unsubscribe(k, u) sends one UnsubscribeOutput for k, on the current
\* requester, if it removes the last subscriber of k while connected, and sends
\* no request otherwise.
C9_StopOnlyForLastWhileConnected ==
    [][\A k \in Keys, u \in 1..nextUuid :
         Unsubscribe(k, u) =>
            IF /\ requester # None
               /\ k \in DOMAIN subscribed_outputs
               /\ DOMAIN subscribed_outputs[k] = {u}
            THEN /\ Len(Requests(out')) = 1
                 /\ Requests(out')[1].kind = "UnsubscribeOutput"
                 /\ Requests(out')[1].output = k
                 /\ Requests(out')[1].requester = requester
            ELSE Requests(out') = <<>>]_vars

\* the last subscriber of an output was unsubscribed while connected
C9_Witness ==
    /\ requester # None
    /\ Len(OfKind(out, "UnsubscribeOutput")) = 1
    /\ Len(Requests(out)) = 1
    /\ Requests(out)[1].output \notin DOMAIN subscribed_outputs

\* the Update{v} messages among the sends o to subscriber channel s
Delivered(o, s, v) ==
    Len(SelectSeq(o, LAMBDA e : /\ e.to = "subscriber"
                                /\ e.subscriber = s
                                /\ e.msg.type = "Update"
                                /\ e.msg.value = v))

\* the times channel s is registered under the outputs of the entries of
\* Update(cycler, outputs) that carry v
RECURSIVE Registered(_, _, _, _)
Registered(cycler, outputs, s, v) ==
    IF outputs = <<>> THEN 0
    ELSE LET key == CyclerOutput(cycler, Head(outputs).output) IN
         (IF Head(outputs).data = v /\ key \in DOMAIN subscribed_outputs
          THEN Cardinality({u \in DOMAIN subscribed_outputs[key] :
                               subscribed_outputs[key][u] = s})
          ELSE 0)
         + Registered(cycler, Tail(outputs), s, v)

\* C10: an Update that is not suspended in a send has delivered each entry's
\* value once per registration to every subscriber channel (whose receiver
\* exists) of the entry's output, nothing else, and has left the table as it was.
C10_UpdateReachesEverySubscriber ==
    [][\A cycler \in Cyclers, outputs \in Batches, uo \in Orders(AllUuids) :
         (Update(cycler, outputs, uo) /\ pc' # "sending") =>
            /\ \A s \in Chans, v \in Values :
                  ~closed[s] => Delivered(out', s, v) = Registered(cycler, outputs, s, v)
            /\ subscribed_outputs' = subscribed_outputs]_vars

\* the notices (SubscriptionSuccess, SubscriptionFailure) among the sends o to channel s
Notices(o, s) ==
    SelectSeq(o, LAMBDA e : /\ e.to = "subscriber"
                            /\ e.subscriber = s
                            /\ e.msg.type # "Update")

\* channel s is a notification target of a start flow that has not finished
Captured(s) ==
    \E id \in DOMAIN flows :
        /\ flows[id].kind = "subscribe"
        /\ IF flows[id].st = "await"
           THEN \E i \in 1..Len(flows[id].subscribers) : flows[id].subscribers[i] = s
           ELSE \E i \in 1..Len(flows[id].todo) : flows[id].todo[i].subscriber = s

\* C11: a channel that is the target of no unfinished start flow stays so, and is
\* sent no notice, in every step that is neither a Connect nor a Subscribe of that
\* channel to an output that is not in the table. So a channel subscribed to an
\* output that is in the table receives no SubscriptionSuccess and no
\* SubscriptionFailure as long as no Connect is processed.
C11_JoinerGetsNoNotice ==
    [][\A s \in Chans :
         (/\ ~Captured(s)
          /\ nextConn' = nextConn
          /\ ~(\E k \in Keys \ DOMAIN subscribed_outputs : Subscribe(k, s))) =>
            /\ Notices(out', s) = <<>>
            /\ ~Captured(s)']_vars

\* s2 joined an output of s1 while its start request was outstanding; the reply
\* has now been delivered, to s1 only
C11_Witness ==
    /\ nextConn = 2
    /\ nextUuid = 3
    /\ \E k \in DOMAIN subscribed_outputs :
          /\ DOMAIN subscribed_outputs[k] = {1, 2}
          /\ subscribed_outputs[k][1] = "s1"
          /\ subscribed_outputs[k][2] = "s2"
    /\ out = <<ToSubscriber("s1", SubscriptionSuccess)>>
    /\ ~Captured("s2")
    /\ chan["s2"] = 0

\* the times channel s occurs among the senders subscribers
Occurrences(subscribers, s) ==
    Cardinality({i \in 1..Len(subscribers) : subscribers[i] = s})

\* the reply `message` to start flow id notifies every target of the flow (whose
\* receiver exists) once per occurrence, now or when the suspended task goes on
NotifiesTargets(id, message) ==
    LET rest == IF id \in DOMAIN flows' THEN flows'[id].todo ELSE <<>> IN
    \A s \in Chans :
        ~closed[s] =>
            Notices(out' \o rest, s) =
                [i \in 1..Occurrences(flows[id].subscribers, s) |-> ToSubscriber(s, message)]

\* C12: the targets of a start flow created by Subscribe are the one new
\* subscriber, those of a flow created by Connect are all subscribers of the
\* output; when the reply is delivered every target receives exactly one notice
\* (success, or failure with the reply's detail) and no other channel any.
C12_EveryTargetNotifiedOnce ==
    [][/\ \A k \in Keys, s \in Chans :
            (Subscribe(k, s) /\ flows' # flows) =>
                /\ DOMAIN flows' = DOMAIN flows \cup {nextId}
                /\ flows'[nextId].subscribers = <<s>>
       /\ nextConn' # nextConn =>
            \A k \in DOMAIN subscribed_outputs :
                \E id \in DOMAIN flows' \ DOMAIN flows :
                    /\ flows'[id].kind = "subscribe"
                    /\ flows'[id].output = k
                    /\ \A s \in Chans :
                          Occurrences(flows'[id].subscribers, s) =
                             Cardinality({u \in DOMAIN subscribed_outputs[k] :
                                             subscribed_outputs[k][u] = s})
       /\ \A id \in DOMAIN flows :
            /\ SubscribeReply(id, SubscriptionSuccess) =>
                  NotifiesTargets(id, SubscriptionSuccess)
            /\ \A info \in Infos :
                  SubscribeReply(id, SubscriptionFailure(info)) =>
                     NotifiesTargets(id, SubscriptionFailure(info))]_vars

\* C13: GetOutputHierarchy replies with the hierarchy of the UpdateOutputHierarchy
\* message processed last, and with None as long as none was processed.
C13_RepliesLastProcessed ==
    [][GetOutputHierarchy => out' = <<ToCaller(processed)>>]_vars

\* no subscription was made; the query of the last Connect and then an older
\* query with another hierarchy were processed, and GetOutputHierarchy has
\* replied with the one processed last
C13_Witness ==
    /\ nextUuid = 1
    /\ fresh # None
    /\ hierarchy # fresh
    /\ hierarchy # None
    /\ out = <<ToCaller(hierarchy)>>

\* C14: the reply of a query leaves the cached hierarchy as it is; a failure, or
\* a success whose payload is not a hierarchy, enqueues nothing, and a success
\* with a hierarchy enqueues exactly one UpdateOutputHierarchy carrying it (the
\* actor running).
C14_FailedQueryKeepsCache ==
    [][\A id \in DOMAIN flows, ok \in BOOLEAN, value \in Hierarchies \cup {None} :
         QueryReply(id, ok, value) =>
            /\ hierarchy' = hierarchy
            /\ mailbox' = IF ok /\ value \in Hierarchies /\ pc # "dead"
                          THEN Append(mailbox, value)
                          ELSE mailbox]_vars

\* a hierarchy is cached, and the query of the connection made last was replied
\* to without anything having been enqueued for it
C14_Witness ==
    /\ nextConn = 3
    /\ hierarchy # None
    /\ fresh = None
    /\ mailbox = <<>>
    /\ \A id \in DOMAIN flows : flows[id].kind # "query"
    /\ out = <<>>

\* C15: once the UpdateOutputHierarchy of the last Connect's own query was
\* processed, the cached hierarchy is that one until the next Connect.
C15_FreshCatalogStays ==
    fresh # None => hierarchy = fresh

\* C20: a step that makes a connection or changes or drops the connection handle
\* (Connect, Disconnect) leaves the table and the cached hierarchy as they are,
\* and a step that leaves the handle absent sends nothing upstream.
C20_ConnectionStepsChangeOnlyHandle ==
    [][(nextConn' # nextConn \/ requester' # requester \/ Disconnect) =>
         /\ subscribed_outputs' = subscribed_outputs
         /\ hierarchy' = hierarchy
         /\ requester' = None => Upstream(out') = <<>>]_vars

\* a Connect was processed with a subscriber in the table and a hierarchy cached
\* by an earlier connection: it replayed the output and queried the hierarchy
C20_Witness ==
    /\ nextConn = 3
    /\ requester = 2
    /\ hierarchy # None
    /\ DOMAIN subscribed_outputs # {}
    /\ Len(OfKind(out, "SubscribeOutput")) = 1
    /\ Len(OfKind(out, "GetOutputHierarchy")) = 1

\* C16: Unsubscribe(k, u) for an output that is not in the table, or a uuid that
\* is not registered under k (though it may be under another output), changes
\* neither the table nor the requester nor the cached hierarchy, sends nothing
\* upstream, and leaves the actor ready for its next message.
C16_UnknownUnsubscribeIsNoOp ==
    [][\A k \in Keys, u \in 1..nextUuid :
         (Unsubscribe(k, u) /\ ~(k \in DOMAIN subscribed_outputs
                                 /\ u \in DOMAIN subscribed_outputs[k])) =>
            /\ subscribed_outputs' = subscribed_outputs
            /\ requester' = requester
            /\ hierarchy' = hierarchy
            /\ Upstream(out') = <<>>
            /\ pc' = "idle"]_vars

\* an Unsubscribe was processed after Connect and one Subscribe, while the query
\* and the start request are outstanding and nothing was sent to a subscriber,
\* and the subscription is still there
C16_Witness ==
    /\ requester = 1
    /\ nextUuid = 2
    /\ nextId = 3
    /\ DOMAIN flows = {1, 2}
    /\ flows[2].kind = "subscribe" /\ flows[2].st = "await"
    /\ AllUuids = {1}
    /\ \A s \in Chans : chan[s] = 0
    /\ out = <<>>

\* C17: the actor is never ended by a subscriber channel whose receiver is gone.
C17_ActorSurvivesClosedChannel ==
    pc # "dead"

ValuesTo(o, s) ==
    LET updates == SelectSeq(o, LAMBDA e : /\ e.to = "subscriber"
                                           /\ e.subscriber = s
                                           /\ e.msg.type = "Update")
    IN [i \in 1..Len(updates) |-> updates[i].msg.value]

\* the values Update(cycler, outputs) owes channel s, in the order of the batch
RECURSIVE Due(_, _, _)
Due(cycler, outputs, s) ==
    IF outputs = <<>> THEN <<>>
    ELSE LET key == CyclerOutput(cycler, Head(outputs).output)
             n == IF key \in DOMAIN subscribed_outputs
                  THEN Cardinality({u \in DOMAIN subscribed_outputs[key] :
                                       subscribed_outputs[key][u] = s})
                  ELSE 0
         IN [i \in 1..n |-> Head(outputs).data] \o Due(cycler, Tail(outputs), s)

\* a is b, or the actor panicked and a is the part of b it had got to
SentOf(a, b) ==
    /\ Len(a) <= Len(b)
    /\ \A i \in 1..Len(a) : a[i] = b[i]
    /\ pc' # "dead" => Len(a) = Len(b)

\* C19: what an Update handler sends to a channel, in the step that starts it
\* and in the steps that resume it, are the values the batch owes the channel
\* in the order of the batch, and no other handler starts before it has
\* finished. (The channel is first-in first-out, so the order of the sends is
\* the order in which the consumer receives.)
C19_UpdatesInArrivalOrder ==
    [][/\ \A cycler \in Cyclers, outputs \in Batches, uo \in Orders(AllUuids) :
            Update(cycler, outputs, uo) =>
                \A s \in Chans :
                    SentOf(ValuesTo(out' \o pending', s), Due(cycler, outputs, s))
       /\ pc = "sending" =>
            \A s \in Chans : SentOf(ValuesTo(out' \o pending', s), ValuesTo(pending, s))
       /\ pc' # "sending" => pending' = <<>>]_vars

\* an Update with v1 and then v2 for one output has sent v1 to its subscriber
\* and is suspended with v2, the channel being full
C19_Witness ==
    /\ pc = "sending"
    /\ Len(out) = 1
    /\ Len(pending) = 1
    /\ out[1].subscriber = pending[1].subscriber
    /\ out[1].msg.value = "v1"
    /\ pending[1].msg.value = "v2"

\* C21: a step that changes or drops the connection handle leaves every flow
\* issued before it as it was, and the reply of a flow issued on a connection
\* that is no longer the current one has its whole effect: a start flow notifies
\* the channels it captured, a query that succeeds with a hierarchy enqueues its
\* UpdateOutputHierarchy.
C21_DisconnectCancelsNoFlow ==
    [][/\ (requester' # requester \/ nextConn' # nextConn) =>
            \A id \in DOMAIN flows : id \in DOMAIN flows' /\ flows'[id] = flows[id]
       /\ \A id \in DOMAIN flows :
            flows[id].requester # requester =>
               /\ SubscribeReply(id, SubscriptionSuccess) =>
                     NotifiesTargets(id, SubscriptionSuccess)
               /\ \A info \in Infos :
                     SubscribeReply(id, SubscriptionFailure(info)) =>
                        NotifiesTargets(id, SubscriptionFailure(info))
               /\ \A value \in Hierarchies :
                     QueryReply(id, TRUE, value) => mailbox' = Append(mailbox, value)]_vars

\* after a Disconnect a start flow of the connection has notified its subscriber,
\* and the UpdateOutputHierarchy of the connection's query is in the mailbox
C21_Witness ==
    /\ requester = None
    /\ nextConn = 2
    /\ Len(out) = 1
    /\ out[1].to = "subscriber"
    /\ out[1].msg.type # "Update"
    /\ mailbox # <<>>
    /\ origin = <<1>>

\* C22: every request sent to the requester (SubscribeOutput, UnsubscribeOutput,
\* GetOutputHierarchy) is sent right after the Await of its own id was sent to
\* the responder, and a flow awaiting that id exists when the step ends.
C22_AwaitBeforeRequest ==
    [][\A i \in 1..Len(out') :
         out'[i].to = "requester" =>
            /\ i > 1
            /\ out'[i - 1] = Await(out'[i].id)
            /\ out'[i].id \in DOMAIN flows'
            /\ out'[i].id \notin DOMAIN flows]_vars

\* a Connect has replayed an output and queried the hierarchy, each request
\* after the Await of its id
C22_Witness ==
    /\ Len(out) = 4
    /\ out[1] = Await(out[2].id)
    /\ out[2].to = "requester" /\ out[2].kind = "SubscribeOutput"
    /\ out[3] = Await(out[4].id)
    /\ out[4].to = "requester" /\ out[4].kind = "GetOutputHierarchy"

\* C23: with no reply ever delivered, every Connect and Subscribe message placed
\* in the mailbox is eventually processed, however many flows are outstanding.
C23_EveryMessageProcessed ==
    \A n \in 1..LiveMaxMsgs : (Len(inbox) >= n) ~> (Processed >= n)

\* every message placed was processed, no flow was replied to, and two start
\* requests for one output are outstanding
C23_Witness ==
    /\ Len(inbox) = LiveMaxMsgs
    /\ Processed = Len(inbox)
    /\ DOMAIN flows = 1..(nextId - 1)
    /\ \E k \in Keys : Cardinality(OutstandingStarts(k)) >= 2

\* C24: the step in which a stop flow ends (its reply, a success or a failure,
\* was delivered to its task) sends nothing to anyone and changes nothing but
\* the set of tasks.
C24_StopFlowTouchesNothing ==
    [][(\E id \in DOMAIN flows \ DOMAIN flows' : flows[id].kind = "unsubscribe") =>
         /\ out' = <<>>
         /\ UNCHANGED <<subscribed_outputs, requester, hierarchy, pc, pending, mailbox,
                        chan, closed, nextUuid, nextId, nextConn>>
         /\ \A id \in DOMAIN flows' : id \in DOMAIN flows /\ flows'[id] = flows[id]]_vars

\* one Connect and one Subscribe used two message ids and the Unsubscribe a
\* third; the stop flow has ended, the other two flows are outstanding
C24_Witness ==
    /\ requester = 1
    /\ nextConn = 2
    /\ nextUuid = 2
    /\ nextId = 4
    /\ DOMAIN flows = {1, 2}
    /\ DOMAIN subscribed_outputs = {}
    /\ out = <<>>

\* C25: the broker holds one connection handle, the one of the latest Connect
\* unless a Disconnect cleared it, and every request a step sends goes out on
\* the handle the broker holds after that step; a replaced or cleared handle
\* carries no further request.
C25_RequestsOnCurrentHandle ==
    [][/\ requester' \in {None, nextConn' - 1}
       /\ \A i \in 1..Len(out') :
              out'[i].to = "requester" =>
                  /\ requester' # None
                  /\ out'[i].requester = requester']_vars

\* a Subscribe processed after the second Connect sends its start request on
\* the second handle while a flow of the first connection is outstanding
C25_Witness ==
    /\ requester = 2
    /\ nextUuid = 2
    /\ Len(out) = 3
    /\ out[3].to = "requester"
    /\ out[3].kind = "SubscribeOutput"
    /\ out[3].requester = 2
    /\ \E id \in DOMAIN flows : flows[id].requester = 1

\* C26: the cached catalog changes only in a step that processes an
\* UpdateOutputHierarchy message (it becomes the payload at the head of the
\* broker's own mailbox); a GetOutputHierarchy step sends nothing upstream and
\* changes no state of the broker.
C26_CatalogFrame ==
    [][/\ hierarchy' # hierarchy =>
              /\ pc = "idle"
              /\ mailbox # <<>>
              /\ hierarchy' = Head(mailbox)
              /\ mailbox' = Tail(mailbox)
              /\ out' = <<>>
              /\ UNCHANGED <<subscribed_outputs, requester, nextUuid, nextId, nextConn,
                             flows>>
       /\ GetOutputHierarchy =>
              /\ Upstream(out') = <<>>
              /\ UNCHANGED <<subscribed_outputs, requester, hierarchy, pc, pending,
                             nextUuid, nextId, nextConn, flows, mailbox, chan,
                             closed>>]_vars

\* the catalog fetched on the first connection is handed out after the
\* Disconnect (one subscription id at most was issued, so the reply with the
\* value 2 is the catalog)
C26_Witness ==
    /\ hierarchy = 2
    /\ out = <<ToCaller(2)>>
    /\ nextUuid <= 2
    /\ requester = None
    /\ nextConn = 2
    /\ DOMAIN subscribed_outputs # {}

C28_RemoteViewMatchesTable ==
    [][/\ (requester' # None /\ pc' = "idle") => remote' = DOMAIN subscribed_outputs'
       /\ \A k \in Keys :
              /\ Cardinality(StartIds(out', k)) <= 1
              /\ (StartIds(out', k) # {} /\ nextConn' = nextConn) => k \notin remote
              /\ k \in StopKeys(out') => (k \in remote /\ nextConn' = nextConn)]_vars

\* on the one connection, after start, stop and start of the same output: the
\* output is in the table and in the remote view
C28_Witness ==
    /\ requester = 1
    /\ nextConn = 2
    /\ nextId = 5
    /\ \E k \in Keys :
           /\ remote = {k}
           /\ DOMAIN subscribed_outputs = {k}
           /\ StartIds(out, k) = {4}
           /\ 3 \in DOMAIN flows
           /\ flows[3].kind = "unsubscribe"
           /\ flows[3].output = k

\* the start requests for output k sent on connection c (no reply is delivered
\* under SpecLive, so flows holds every request that was sent)
StartsOn(c, k) ==
    {id \in DOMAIN flows : /\ flows[id].kind = "subscribe"
                           /\ flows[id].output = k
                           /\ flows[id].requester = c}

\* C29: the mailbox delivers Connect and Subscribe messages in any order and
\* each handler runs alone. Whatever the order, once the broker is connected
\* exactly one start request was sent on the present connection for every
\* output of the table, and none for any other output.
C29_RaceCountedOnce ==
    requester # None =>
        \A k \in Keys :
            Cardinality(StartsOn(requester, k)) = IF k \in DOMAIN subscribed_outputs THEN 1 ELSE 0

\* both orders in one run: Subscribe(a), Connect, Subscribe(b) and a second
\* Subscribe(b); a was started by the replay (id 1), b by its first Subscribe
\* (id 3)
C29_Witness ==
    /\ Len(inbox) = 4
    /\ Processed = 4
    /\ inbox[1].kind = "Subscribe"
    /\ inbox[2].kind = "Connect"
    /\ inbox[3].kind = "Subscribe"
    /\ inbox[4].kind = "Subscribe"
    /\ inbox[3].output # inbox[1].output
    /\ inbox[4].output = inbox[3].output
    /\ StartsOn(1, inbox[1].output) = {1}
    /\ StartsOn(1, inbox[3].output) = {3}
    /\ nextId = 4

\* C30: an Update that meets a full channel is suspended at that subscriber:
\* what it sent is a prefix of its sends, the rest waits, and the first of the
\* rest is the send to the full channel. While the handler is suspended no
\* mailbox message is processed (the table and the id allocator stay as they
\* are); as long as the channel at the head is full and open nothing is sent and
\* nothing leaves the waiting sends; and the later subscribers are served only
\* by a step that serves the head first (what a step sends is a prefix of the
\* waiting sends).
C30_HeadOfLineBlocking ==
    [][/\ \A cycler \in Cyclers, outputs \in Batches, uo \in Orders(AllUuids) :
              (Update(cycler, outputs, uo) /\ pc' = "sending") =>
                  /\ out' \o pending' = UpdateSends(cycler, outputs, uo)
                  /\ pending' # <<>>
                  /\ chan'[Head(pending').subscriber] >= Capacity
       /\ pc = "sending" =>
              /\ pending # <<>>
              /\ subscribed_outputs' = subscribed_outputs
              /\ nextUuid' = nextUuid
              /\ (chan[Head(pending).subscriber] >= Capacity
                      /\ ~closed[Head(pending).subscriber]) =>
                     (pending' = pending /\ pc' = "sending" /\ out' = <<>>)
              /\ out' # <<>> =>
                     /\ Len(out') <= Len(pending)
                     /\ out' = SubSeq(pending, 1, Len(out'))
                     /\ pending' \in {<<>>, SubSeq(pending, Len(out') + 1, Len(pending))}]_vars

\* the handler is suspended at one subscriber while the channel of the next
\* subscriber of the same delivery is empty, and nothing was sent
C30_Witness ==
    /\ pc = "sending"
    /\ Len(pending) = 2
    /\ pending[1].subscriber # pending[2].subscriber
    /\ chan[pending[1].subscriber] >= Capacity
    /\ ~closed[pending[1].subscriber]
    /\ chan[pending[2].subscriber] = 0
    /\ ~closed[pending[2].subscriber]
    /\ out = <<>>

\* C31: the step that delivers a failure reply to a start flow leaves the
\* table, the connection handle, the catalog and the allocators as they are and
\* sends nothing upstream; and a step other than a Connect sends a start request
\* for an output only when that output enters the table in that very step, so a
\* Subscribe for an output that stayed in the table after a failure sends none.
C31_FailedStartChangesNothing ==
    [][/\ \A id \in DOMAIN flows, info \in Infos :
              SubscribeReply(id, SubscriptionFailure(info)) =>
                  /\ Upstream(out') = <<>>
                  /\ UNCHANGED <<subscribed_outputs, requester, hierarchy, pc, pending,
                                 nextUuid, nextId, nextConn, mailbox>>
       /\ \A k \in Keys :
              (StartIds(out', k) # {} /\ nextConn' = nextConn) =>
                  (k \notin DOMAIN subscribed_outputs /\ k \in DOMAIN subscribed_outputs')]_vars

\* the failure notice of the start flow of the one output went to its
\* subscriber; the output is in the table, the broker is connected and no start
\* flow for the output is left
C31_Witness ==
    /\ requester # None
    /\ Len(out) = 1
    /\ out[1].to = "subscriber"
    /\ out[1].msg.type = "SubscriptionFailure"
    /\ \E k \in Keys :
           /\ DOMAIN subscribed_outputs = {k}
           /\ \E u \in DOMAIN subscribed_outputs[k] : subscribed_outputs[k][u] = out[1].subscriber
           /\ \A id \in DOMAIN flows : flows[id].kind # "subscribe"

\* channel s is among the sends that the suspended task of start flow id has left
Waits(id, s) == \E i \in 1..Len(flows[id].todo) : flows[id].todo[i].subscriber = s

\* channel s is among the targets captured by start flow id
Targets(id, s) == \E i \in 1..Len(flows[id].subscribers) : flows[id].subscribers[i] = s

\* C32: a step sends a success or failure notice to a channel only if it is the
\* delivery of the reply to a start flow that captured the channel, or the
\* resumption of the task of such a flow; and a start flow whose reply was not
\* delivered stays as it is in every other step (nothing times it out or
\* cancels it).
C32_NoticeOnlyAfterReply ==
    [][/\ \A s \in Chans :
              Notices(out', s) # <<>> =>
                  \E id \in DOMAIN flows :
                      /\ flows[id].kind = "subscribe"
                      /\ IF flows[id].st = "await"
                         THEN /\ Targets(id, s)
                              /\ \/ SubscribeReply(id, SubscriptionSuccess)
                                 \/ \E info \in Infos : SubscribeReply(id, SubscriptionFailure(info))
                         ELSE Waits(id, s) /\ SubscribeResume(id)
       /\ \A id \in DOMAIN flows :
              (flows[id].kind = "subscribe" /\ flows[id].st = "await") =>
                  \/ id \in DOMAIN flows' /\ flows'[id] = flows[id]
                  \/ SubscribeReply(id, SubscriptionSuccess)
                  \/ \E info \in Infos : SubscribeReply(id, SubscriptionFailure(info))]_vars

\* the reply to the third request was delivered and its subscriber notified of
\* the success, while the start flow of the second request is still parked
C32_Witness ==
    /\ nextId = 4
    /\ Len(out) = 1
    /\ out[1].to = "subscriber"
    /\ out[1].msg.type = "SubscriptionSuccess"
    /\ DOMAIN flows = {1, 2}
    /\ flows[2].kind = "subscribe"
    /\ flows[2].st = "await"

\* start flow id still owes channel s a notice
Owes(id, s) ==
    /\ id \in DOMAIN flows
    /\ flows[id].kind = "subscribe"
    /\ IF flows[id].st = "await" THEN Targets(id, s) ELSE Waits(id, s)

\* C33: with every start request replied to, the tasks scheduled fairly and the
\* consumers receiving, every channel captured by a start flow (the first
\* subscriber of an output while connected, every subscriber of the table at a
\* Connect) is eventually sent a success or failure notice, after which the
\* flow owes it nothing.
C33_EventualAcknowledgement ==
    \A id \in 1..AckMaxIds : \A s \in Chans :
        Owes(id, s) ~> (Notices(out, s) # <<>> /\ ~Owes(id, s))

\* both subscribers of the table at the Connect were captured by its start
\* flow; the first notice filled nothing the second had to wait for, and the
\* last of the two notices has just been sent by the resumed task
C33_Witness ==
    /\ requester = 1
    /\ nextId = 3
    /\ DOMAIN flows = {2}
    /\ flows[2].kind = "query"
    /\ Len(out) = 1
    /\ out[1].to = "subscriber"
    /\ out[1].msg.type # "Update"
    /\ chan[out[1].subscriber] = 1
    /\ \E k \in Keys :
           /\ DOMAIN subscribed_outputs = {k}
           /\ Cardinality(DOMAIN subscribed_outputs[k]) = 2
           /\ \A u \in DOMAIN subscribed_outputs[k] : subscribed_outputs[k][u] = out[1].subscriber

\* the subscriptions of channel s to `key` that were made and not unsubscribed
LiveCount(key, s) == Cardinality({t \in live : t.output = key /\ t.subscriber = s})

\* the updates Update(cycler, outputs) may send to channel s: one per entry of
\* the batch and subscription of s, made and not unsubscribed, to the entry's output
RECURSIVE Owed(_, _, _)
Owed(cycler, outputs, s) ==
    IF outputs = <<>> THEN 0
    ELSE LiveCount(CyclerOutput(cycler, Head(outputs).output), s)
         + Owed(cycler, Tail(outputs), s)

\* C34: an Update sends (at once, or later from its waiting sends) to a channel
\* no more values than the channel has subscriptions, made and not yet
\* unsubscribed, to the outputs of the batch: an unsubscribed subscription gets
\* nothing. While an Update waits at a full channel no Unsubscribe is processed,
\* and only the waiting sends go out.
C34_NoUpdateAfterUnsubscribe ==
    [][/\ \A cycler \in Cyclers, outputs \in Batches, uo \in Orders(AllUuids) :
              Update(cycler, outputs, uo) =>
                  \A s \in Chans :
                      Len(ValuesTo(out' \o pending', s)) <= Owed(cycler, outputs, s)
       /\ pc = "sending" =>
              /\ live' = live
              /\ \A s \in Chans :
                     Len(ValuesTo(out' \o pending', s)) = Len(ValuesTo(pending, s))]_vars

\* two subscriptions were made and one of them unsubscribed; the Update that
\* followed went to the channel of the other alone
C34_Witness ==
    /\ pc = "idle"
    /\ nextUuid = 3
    /\ Cardinality(live) = 1
    /\ Len(out) = 1
    /\ out[1].to = "subscriber"
    /\ out[1].msg.type = "Update"
    /\ \E t \in live : t.subscriber = out[1].subscriber
    /\ \A s \in Chans \ {out[1].subscriber} : chan[s] = 0

\* what the task of start flow id sends in this step or has left to send
TaskSends(id) == out' \o (IF id \in DOMAIN flows' THEN flows'[id].todo ELSE <<>>)

\* the delivery of the reply `message` to start flow id sends a notice to every
\* captured channel whose receiver exists, and to no other channel
NotifiesSnapshot(id, message) ==
    SubscribeReply(id, message) =>
        \A s \in Chans :
            IF Targets(id, s)
            THEN ~closed[s] => Notices(TaskSends(id), s) # <<>>
            ELSE Notices(TaskSends(id), s) = <<>>

\* C35: the targets of a start flow whose reply is awaited are the same after
\* every step, whatever is subscribed or unsubscribed meanwhile; and the reply
\* sends a notice to every target (whose receiver exists), in the table or not,
\* and to no channel that is not a target.
C35_TargetsAreSnapshot ==
    [][\A id \in DOMAIN flows :
           (flows[id].kind = "subscribe" /\ flows[id].st = "await") =>
               /\ (id \in DOMAIN flows' /\ flows'[id].st = "await") =>
                      flows'[id].subscribers = flows[id].subscribers
               /\ NotifiesSnapshot(id, SubscriptionSuccess)
               /\ \A info \in Infos : NotifiesSnapshot(id, SubscriptionFailure(info))]_vars

\* C36: when a target of a start flow has lost its receiver, the delivery of the
\* reply (and the resumption of the flow's suspended task) still sends the
\* notice to every other target whose receiver exists.
C36_OpenTargetsStillNotified ==
    [][\A id \in DOMAIN flows :
           flows[id].kind = "subscribe" =>
               IF flows[id].st = "await"
               THEN (\E c \in Chans : Targets(id, c) /\ closed[c]) =>
                        \A s \in Chans :
                            (/\ Targets(id, s)
                             /\ ~closed[s]
                             /\ \/ SubscribeReply(id, SubscriptionSuccess)
                                \/ \E info \in Infos : SubscribeReply(id, SubscriptionFailure(info))) =>
                                Notices(TaskSends(id), s) # <<>>
               ELSE (\E c \in Chans : Waits(id, c) /\ closed[c]) =>
                        \A s \in Chans :
                            (Waits(id, s) /\ ~closed[s] /\ SubscribeResume(id)) =>
                                Notices(out', s) # <<>>]_vars

\* C37: in every state, with or without a connection handle, with start flows
\* awaited, delivered or failed, an Update sends each channel the values the
\* table owes it for the batch (all of them unless the handler panics on the
\* way), sends nothing upstream and leaves the connection handle, the flows and
\* the table as they are.
C37_FanOutIgnoresConnection ==
    [][\A cycler \in Cyclers, outputs \in Batches, uo \in Orders(AllUuids) :
           Update(cycler, outputs, uo) =>
               /\ \A s \in Chans :
                      SentOf(ValuesTo(out' \o pending', s), Due(cycler, outputs, s))
               /\ Upstream(out') = <<>>
               /\ UNCHANGED <<requester, flows, nextId, subscribed_outputs>>]_vars

\* the connection was lost while the start flow of the output is still
\* awaited, and the Update that followed was sent to both subscribers
C37_Witness ==
    /\ requester = None
    /\ nextConn = 2
    /\ pc = "idle"
    /\ \E id \in DOMAIN flows : flows[id].kind = "subscribe" /\ flows[id].st = "await"
    /\ Len(out) = 2
    /\ \A i \in 1..2 : out[i].to = "subscriber" /\ out[i].msg.type = "Update"
    /\ out[1].subscriber # out[2].subscriber

\* C38: the ids the allocator has handed out are 1..nextId-1. The requests a
\* step sends carry ids never handed out before and different from one
\* another, one new id per request; every id registered with the responder is
\* the id of the request sent right after it; and the flow recorded under that
\* id is the one of that request.
C38_OwnCorrelationId ==
    [][LET R == Requests(out') IN
       /\ nextId' = nextId + Len(R)
       /\ \A i \in 1..Len(R) :
              /\ R[i].id \notin 1..(nextId - 1)
              /\ R[i].id \in 1..(nextId' - 1)
              /\ \A j \in 1..Len(R) : i # j => R[i].id # R[j].id
              /\ R[i].id \in DOMAIN flows'
              /\ flows'[R[i].id].requester = R[i].requester
              /\ flows'[R[i].id].kind = CASE R[i].kind = "SubscribeOutput" -> "subscribe"
                                          [] R[i].kind = "UnsubscribeOutput" -> "unsubscribe"
                                          [] OTHER -> "query"
       /\ \A i \in 1..Len(out') :
              out'[i].to = "responder" =>
                  /\ i < Len(out')
                  /\ out'[i + 1].to = "requester"
                  /\ out'[i + 1].id = out'[i].id]_vars

\* a Connect with two outputs in the table has sent two start requests and the
\* query under the ids 1, 2 and 3
C38_Witness ==
    /\ nextId = 4
    /\ Len(out) = 6
    /\ {out[2].id, out[4].id, out[6].id} = {1, 2, 3}
    /\ out[2].kind = "SubscribeOutput"
    /\ out[4].kind = "SubscribeOutput"
    /\ out[6].kind = "GetOutputHierarchy"
    /\ DOMAIN flows = {1, 2, 3}

====
